---- MODULE Spec2Model ----
(***************************************************************************)
(* zookeeper.component: Component construction, hydration with scoped      *)
(* configuration, and validation.                                          *)
(*                                                                         *)
(* Python values are records [t, c, v]:                                    *)
(*   t = "int"  : an int with value v                                      *)
(*   t = "str"  : a str                                                    *)
(*   t = "inst" : a reference to the Component instance heap[v]            *)
(*   t = "type" : the class object named c                                 *)
(* A dotted configuration key "b.a.x" is the sequence <<"b","a","x">> of   *)
(* its segments, and so is a qualified component name.                     *)
(***************************************************************************)
EXTENDS Integers, Sequences, FiniteSets, TLC

VARIABLES heap, stack, status, err, interactive, prompted, root, callerConf,
          trace, call

vars == <<heap, stack, status, err, interactive, prompted, root, callerConf,
          trace, call>>

(* ---------------------------- bounds ----------------------------------- *)
\* number of instances the calling program constructs before hydrating
MaxCtor == 1
\* largest number of entries of the mapping passed to the top-level hydrate
MaxConfKeys == 2
\* largest number of keyword arguments of one constructor call
MaxKwargs == 1

(* ---------------------------- values ----------------------------------- *)
IntV(n) == [t |-> "int", c |-> "", v |-> n]
StrV == [t |-> "str", c |-> "", v |-> 0]
InstV(id) == [t |-> "inst", c |-> "", v |-> id]
TypeV(cls) == [t |-> "type", c |-> cls, v |-> 0]

NoAttrs == [n \in {} |-> StrV]
NoName == <<>>
\* an exception: its kind, the qualified component name and the parameter its
\* message names, the line that raises it and, for the errors of validation,
\* the declared type and the type of the value found
NoErr ==
  [kind |-> "", name |-> <<>>, param |-> "", line |-> 0,
   expected |-> "", actual |-> ""]

(* ------------------------ the component classes ------------------------ *)
\* The classes of the docstring example (A, B, C), with B split in a base
\* Bn and a subclass B that adds x, a component S with two sibling
\* sub-components, and an abstract component type Z without any concrete
\* subclass, held by R. P has two sub-component parameters whose class-level
\* default is one and the same instance of A, created before the class body:
\* heap[1]. Link holds a sub-component of its abstract base Node, whose only
\* concrete subclass is Link itself.
\*   class A(Component):  x: int; z: int
\*   class Bn(Component): a: A; z: int = 9
\*   class B(Bn):         x: int
\*   class C(Component):  b: Bn; x: int; z: int = 3
\*   class S(Component):  b: B; r: A
\*   class Z(Component):  (abstract)
\*   class R(Component):  q: Z; x: int
\*   shared = A()
\*   class P(Component):  b: A = shared; r: A = shared
\*   class Node(Component): (abstract)
\*   class Link(Node):    next: Node
ClassTable ==
  [ Component |-> [base |-> "", abstract |-> TRUE,
                   annots |-> <<>>, defaults |-> NoAttrs],
    A  |-> [base |-> "Component", abstract |-> FALSE,
            annots |-> << <<"x", "int">>, <<"z", "int">> >>,
            defaults |-> NoAttrs],
    Bn |-> [base |-> "Component", abstract |-> FALSE,
            annots |-> << <<"a", "A">>, <<"z", "int">> >>,
            defaults |-> [n \in {"z"} |-> IntV(9)]],
    B  |-> [base |-> "Bn", abstract |-> FALSE,
            annots |-> << <<"x", "int">> >>,
            defaults |-> NoAttrs],
    C  |-> [base |-> "Component", abstract |-> FALSE,
            annots |-> << <<"b", "Bn">>, <<"x", "int">>, <<"z", "int">> >>,
            defaults |-> [n \in {"z"} |-> IntV(3)]],
    S  |-> [base |-> "Component", abstract |-> FALSE,
            annots |-> << <<"b", "B">>, <<"r", "A">> >>,
            defaults |-> NoAttrs],
    Z  |-> [base |-> "Component", abstract |-> TRUE,
            annots |-> <<>>, defaults |-> NoAttrs],
    R  |-> [base |-> "Component", abstract |-> FALSE,
            annots |-> << <<"q", "Z">>, <<"x", "int">> >>,
            defaults |-> NoAttrs],
    P  |-> [base |-> "Component", abstract |-> FALSE,
            annots |-> << <<"b", "A">>, <<"r", "A">> >>,
            defaults |-> [n \in {"b", "r"} |-> InstV(1)]],
    Node |-> [base |-> "Component", abstract |-> TRUE,
              annots |-> <<>>, defaults |-> NoAttrs],
    Link |-> [base |-> "Node", abstract |-> FALSE,
              annots |-> << <<"next", "Node">> >>,
              defaults |-> NoAttrs] ]

ClassNames == DOMAIN ClassTable

ConcreteClasses == {c \in ClassNames : ~ClassTable[c].abstract}

\* inspect.getmro for single inheritance: the class, then its bases
RECURSIVE getmro(_)
getmro(cls) ==
  IF cls = "" THEN <<>> ELSE <<cls>> \o getmro(ClassTable[cls].base)

reversed(s) == [i \in 1..Len(s) |-> s[Len(s) + 1 - i]]

issubclass(cls, base) == \E i \in 1..Len(getmro(cls)) : getmro(cls)[i] = base

\* dict.update on an insertion-ordered dict held as a sequence of pairs
RECURSIVE update(_, _)
update(d, pairs) ==
  IF pairs = <<>> THEN d
  ELSE LET p == Head(pairs)
           hit == {i \in 1..Len(d) : d[i][1] = p[1]}
           d1 == IF hit = {} THEN Append(d, p)
                 ELSE [i \in 1..Len(d) |-> IF i \in hit THEN p ELSE d[i]]
       IN update(d1, Tail(pairs))

RECURSIVE CollectAnnotations(_, _)
CollectAnnotations(classes, acc) ==
  IF classes = <<>> THEN acc
  ELSE CollectAnnotations(Tail(classes),
                          update(acc, ClassTable[Head(classes)].annots))

\* the annotations an instance lookup of __annotations__ finds: those of the
\* nearest class of the MRO that declares any
RECURSIVE NearestAnnotations(_)
NearestAnnotations(mro) ==
  IF mro = <<>> THEN <<>>
  ELSE IF ClassTable[Head(mro)].annots # <<>> THEN ClassTable[Head(mro)].annots
  ELSE NearestAnnotations(Tail(mro))

\* lines 130-134 for an instance of each class: the property depends on the
\* class of the instance alone
AnnotationTable ==
  [cls \in ClassNames |->
     update(CollectAnnotations(reversed(getmro(cls)), <<>>),
            NearestAnnotations(getmro(cls)))]

component_annotations_all(cls) == AnnotationTable[cls]

AnnotationNames(cls) ==
  {component_annotations_all(cls)[i][1] :
     i \in 1..Len(component_annotations_all(cls))}

IsComponentType(ty) == ty \in ClassNames /\ issubclass(ty, "Component")

IsComponentPair(p) == IsComponentType(p[2])
IsScalarPair(p) == ~IsComponentType(p[2])

\* the sub-component annotations visited last to first
component_annotations_reversed(cls) ==
  reversed(SelectSeq(component_annotations_all(cls), IsComponentPair))

component_annotations(cls) ==
  SelectSeq(component_annotations_all(cls), IsComponentPair)

non_component_annotations(cls) ==
  SelectSeq(component_annotations_all(cls), IsScalarPair)

ScalarNames(cls) ==
  {non_component_annotations(cls)[i][1] :
     i \in 1..Len(non_component_annotations(cls))}

ComponentNames(cls) ==
  {component_annotations(cls)[i][1] :
     i \in 1..Len(component_annotations(cls))}

\* the type registry: every concrete class that is a subclass of ty
get_concrete_subclasses(ty) == {c \in ConcreteClasses : issubclass(c, ty)}

(* ------------------------- attribute access ---------------------------- *)
RECURSIVE ClassAttr(_, _)
\* the class-level default for k found along the MRO (StrV when there is none)
ClassAttr(mro, k) ==
  IF mro = <<>> THEN StrV
  ELSE IF k \in DOMAIN ClassTable[Head(mro)].defaults
       THEN ClassTable[Head(mro)].defaults[k]
       ELSE ClassAttr(Tail(mro), k)

HasClassAttr(cls, k) ==
  \E i \in 1..Len(getmro(cls)) : k \in DOMAIN ClassTable[getmro(cls)[i]].defaults

hasattr(h, id, k) == k \in DOMAIN h[id].attrs \/ HasClassAttr(h[id].cls, k)

getattr(h, id, k) ==
  IF k \in DOMAIN h[id].attrs THEN h[id].attrs[k]
  ELSE ClassAttr(getmro(h[id].cls), k)

\* d[k] = v on a mapping
DictSet(d, k, v) == [n \in DOMAIN d \cup {k} |-> IF n = k THEN v ELSE d[n]]

setattr(h, id, k, v) == [h EXCEPT ![id].attrs = DictSet(@, k, v)]

NewObject(cls) == [cls |-> cls, attrs |-> NoAttrs, parent |-> 0, name |-> NoName]

\* the instances that exist once the class bodies have run: the A() that is
\* the class-level default of P.b and P.r
ClassInstances == << NewObject("A") >>

isinstance(h, val, ty) ==
  IF ty \in ClassNames
  THEN val.t = "inst" /\ issubclass(h[val.v].cls, ty)
  ELSE val.t = ty

\* type(val).__name__
type(h, val) ==
  IF val.t = "inst" THEN h[val.v].cls ELSE val.t

(* --------------------------- configuration ----------------------------- *)
NoConf == [key \in {} |-> StrV]

\* a nested conf that inherits nothing from the enclosing scope
non_scoped_conf_none(conf) == NoConf

\* line 253: the entries whose key holds no "."
non_scoped_conf(conf) == [key \in {a \in DOMAIN conf : Len(a) = 1} |-> conf[key]]

\* lines 254-256: the entries whose key starts with "<k>.", that prefix cut
k_scoped_conf(conf, k) ==
  [key \in {Tail(a) : a \in {a \in DOMAIN conf : Len(a) > 1 /\ a[1] = k}}
     |-> conf[<<k>> \o key]]

\* {**d1, **d2}
Merge(d1, d2) ==
  [key \in DOMAIN d1 \cup DOMAIN d2 |->
     IF key \in DOMAIN d2 THEN d2[key] ELSE d1[key]]

\* the merge with the precedence reversed: non-scoped keys override scoped ones
nested_conf_unscoped_first(conf, k) ==
  Merge(k_scoped_conf(conf, k), non_scoped_conf(conf))

\* line 257
nested_conf(conf, k) == Merge(non_scoped_conf(conf), k_scoped_conf(conf, k))

\* the keys and values the caller may put in the mapping
ConfKeys ==
  { <<"x">>, <<"b", "x">>, <<"b", "a", "x">>, <<"z">>, <<"b">>, <<"k">> }

\* the keys for x hold a different int per scope, z holds an int or a str, the
\* key that names a sub-component holds a class (a subclass of the declared
\* type of S.b and C.b, none of that of P.b) and the literal key "k" holds a
\* class or an int
ConfValues(key) ==
  IF key = <<"b">> THEN {TypeV("B")}
  ELSE IF key = <<"k">> THEN {TypeV("B"), IntV(1)}
  ELSE IF key = <<"z">> THEN {IntV(1), StrV}
  ELSE {IntV(Len(key))}

WellTyped(conf) == \A key \in DOMAIN conf : conf[key] \in ConfValues(key)

ConfChoices ==
  UNION { {conf \in [keys -> UNION {ConfValues(key) : key \in keys}] :
             WellTyped(conf)} :
            keys \in {ks \in SUBSET ConfKeys : Cardinality(ks) <= MaxConfKeys} }

(* ------------------------------ state ---------------------------------- *)
\* One frame per active call of hydrate: the instance, its conf dict, the
\* dict as it was on entry, the loop the call is in and the index of the next
\* annotation of that loop.
\* the position after index i of the loop `phase`: a finished loop hands over
\* to the next one (scalars, then components, then validation)
Advance(cls, phase, i) ==
  LET ns == Len(non_component_annotations(cls))
      nc == Len(component_annotations(cls))
  IN  IF phase = "scalars" /\ i <= ns THEN [phase |-> "scalars", i |-> i]
      ELSE IF phase = "scalars" /\ nc > 0 THEN [phase |-> "components", i |-> 1]
      ELSE IF phase = "components" /\ i <= nc THEN [phase |-> "components", i |-> i]
      ELSE [phase |-> "validate", i |-> 1]

Frame(cls, id, name, conf) ==
  [self |-> id, name |-> name, conf |-> conf, conf0 |-> conf,
   phase |-> Advance(cls, "scalars", 1).phase, i |-> 1]

Step(cls, f) ==
  [f EXCEPT !.phase = Advance(cls, f.phase, f.i + 1).phase,
            !.i = Advance(cls, f.phase, f.i + 1).i]

Top == stack[Len(stack)]

SetTop(f) == [stack EXCEPT ![Len(stack)] = f]

\* an exception that is recorded while the call goes on
Raise_and_go_on(kind, name, param, line) ==
  /\ status' = status
  /\ err' = [NoErr EXCEPT !.kind = kind, !.name = name, !.param = param,
                          !.line = line]

\* raise: no frame of hydrate or __init__ catches an exception, so it ends the
\* top-level call
Raise(kind, name, param, line) ==
  /\ status' = "failed"
  /\ err' = [NoErr EXCEPT !.kind = kind, !.name = name, !.param = param,
                          !.line = line]

\* one step of hydrate, as it is appended to the trace of the top-level call:
\* op is "enter" (lines 171-172), "scalar" (one iteration of the first loop),
\* "component" (the resolution of one sub-component parameter) or "validated"
\* (validate_configuration returned); node is the qualified name of the node
\* the step works on, id that instance, param the parameter ("" when none)
Event(op, node, id, param) == [op |-> op, node |-> node, id |-> id, param |-> param]

\* the constructor call made last, its class and keyword arguments, kept
\* while the program builds instances and dropped when it calls hydrate
NoCall == [cls |-> "", kwargs |-> <<>>]

Init ==
  /\ heap = ClassInstances
  /\ stack = <<>>
  /\ status = "building"
  /\ err = NoErr
  /\ interactive = FALSE
  /\ prompted = <<>>
  /\ root = 0
  /\ callerConf = NoConf
  /\ trace = <<>>
  /\ call = NoCall

(* --------------------------- construction ------------------------------ *)
\* a constructor that skips the names that are no annotation
RECURSIVE init_lenient(_, _, _)
init_lenient(cls, kwargs, attrs) ==
  IF kwargs = <<>> THEN [attrs |-> attrs, bad |-> ""]
  ELSE IF Head(kwargs)[1] \in AnnotationNames(cls)
       THEN init_lenient(cls, Tail(kwargs),
                         DictSet(attrs, Head(kwargs)[1], Head(kwargs)[2]))
       ELSE init_lenient(cls, Tail(kwargs), attrs)

\* lines 142-148: the loop of __init__ over kwargs, a sequence of
\* <<name, value>>; the result is the instance's attributes and the first
\* name that is no annotation ("" when all are)
RECURSIVE init(_, _, _)
init(cls, kwargs, attrs) ==
  IF kwargs = <<>> THEN [attrs |-> attrs, bad |-> ""]
  ELSE IF Head(kwargs)[1] \in AnnotationNames(cls)
       THEN init(cls, Tail(kwargs), DictSet(attrs, Head(kwargs)[1], Head(kwargs)[2]))
       ELSE [attrs |-> attrs, bad |-> Head(kwargs)[1]]

KwNames(cls) == AnnotationNames(cls) \cup {"bad"}

\* the values a caller passes for keyword n: instances built before for a
\* sub-component, an int otherwise
KwValues(h, cls, n) ==
  IF n \in ComponentNames(cls)
  THEN {InstV(id) : id \in (Len(ClassInstances) + 1)..Len(h)}
  ELSE {IntV(2)}

DistinctNames(kwargs) ==
  \A i, j \in 1..Len(kwargs) : kwargs[i][1] = kwargs[j][1] => i = j

\* an instance built before the root is built to be handed to the next
\* constructor, as in C(b=B())
UsesLast(h, kwargs) ==
  Len(h) = Len(ClassInstances)
    \/ \E i \in 1..Len(kwargs) : kwargs[i][2] = InstV(Len(h))

CtorKwargs(h, cls) ==
  {kw \in UNION {[1..n -> UNION {{<<nm, val>> : val \in KwValues(h, cls, nm)} :
                                   nm \in KwNames(cls)}] : n \in 0..MaxKwargs} :
     DistinctNames(kw) /\ UsesLast(h, kw)}

Construct ==
  /\ status = "building"
  /\ Len(heap) < Len(ClassInstances) + MaxCtor
  /\ \E cls \in ConcreteClasses : \E kwargs \in CtorKwargs(heap, cls) :
       LET r == init(cls, kwargs, NoAttrs) IN
       /\ call' = [cls |-> cls, kwargs |-> kwargs]
       /\ IF r.bad = ""
          THEN /\ heap' = Append(heap, [NewObject(cls) EXCEPT !.attrs = r.attrs])
               /\ UNCHANGED <<status, err>>
          ELSE /\ Raise("InvalidArgument", <<cls>>, r.bad, 146)
               /\ UNCHANGED heap
  /\ UNCHANGED <<stack, interactive, prompted, root, callerConf, trace>>

(* ----------------------------- hydrate --------------------------------- *)
\* lines 171-172 on entry of hydrate
Enter(h, id, parent, name) == [h EXCEPT ![id].parent = parent, ![id].name = name]

\* the top-level call  obj.hydrate(conf, interactive=inter)  on the instance
\* constructed last
HydrateCall ==
  /\ status = "building"
  /\ Len(heap) > Len(ClassInstances)
  /\ \E conf \in ConfChoices : \E inter \in BOOLEAN :
       LET id == Len(heap)
           name == <<heap[id].cls>>
       IN  /\ heap' = Enter(heap, id, 0, name)
           /\ stack' = <<Frame(heap[id].cls, id, name, conf)>>
           /\ interactive' = inter
           /\ root' = id
           /\ callerConf' = conf
           /\ trace' = <<Event("enter", name, id, "")>>
  /\ status' = "hydrating"
  /\ call' = NoCall
  /\ UNCHANGED <<err, prompted>>

\* the caller's dict is the conf of the outermost frame
SyncCaller(conf) == IF Len(stack) = 1 THEN conf ELSE callerConf

\* scalar resolution with the first two branches swapped: a value already on
\* the instance wins over the configured one
ResolveScalarValue_default_first(h, conf, id, k, inter, answer) ==
  IF hasattr(h, id, k)
  THEN [heap |-> h, conf |-> DictSet(conf, <<k>>, getattr(h, id, k)),
        asked |-> FALSE]
  ELSE IF <<k>> \in DOMAIN conf
  THEN [heap |-> setattr(h, id, k, conf[<<k>>]), conf |-> conf, asked |-> FALSE]
  ELSE IF inter
  THEN [heap |-> setattr(h, id, k, answer),
        conf |-> DictSet(conf, <<k>>, answer), asked |-> TRUE]
  ELSE [heap |-> h, conf |-> conf, asked |-> FALSE]

\* scalar resolution that keeps a value already on the instance to itself
ResolveScalarValue_no_writeback(h, conf, id, k, inter, answer) ==
  IF <<k>> \in DOMAIN conf
  THEN [heap |-> setattr(h, id, k, conf[<<k>>]), conf |-> conf, asked |-> FALSE]
  ELSE IF hasattr(h, id, k)
  THEN [heap |-> h, conf |-> conf, asked |-> FALSE]
  ELSE IF inter
  THEN [heap |-> setattr(h, id, k, answer),
        conf |-> DictSet(conf, <<k>>, answer), asked |-> TRUE]
  ELSE [heap |-> h, conf |-> conf, asked |-> FALSE]

\* scalar resolution that keeps the answer of the prompt to the node
ResolveScalarValue_answer_not_shared(h, conf, id, k, inter, answer) ==
  IF <<k>> \in DOMAIN conf
  THEN [heap |-> setattr(h, id, k, conf[<<k>>]), conf |-> conf, asked |-> FALSE]
  ELSE IF hasattr(h, id, k)
  THEN [heap |-> h, conf |-> DictSet(conf, <<k>>, getattr(h, id, k)),
        asked |-> FALSE]
  ELSE IF inter
  THEN [heap |-> setattr(h, id, k, answer), conf |-> conf, asked |-> TRUE]
  ELSE [heap |-> h, conf |-> conf, asked |-> FALSE]

\* lines 190-205: how one iteration of the loop over the non-component
\* annotations resolves parameter k on instance id; `answer` is the value the
\* prompt returns, used by the interactive branch only. The result is the
\* heap and conf after the branch taken and whether it prompted.
ResolveScalarValue(h, conf, id, k, inter, answer) ==
  IF <<k>> \in DOMAIN conf
  THEN [heap |-> setattr(h, id, k, conf[<<k>>]), conf |-> conf, asked |-> FALSE]
  ELSE IF hasattr(h, id, k)
  THEN [heap |-> h, conf |-> DictSet(conf, <<k>>, getattr(h, id, k)),
        asked |-> FALSE]
  ELSE IF inter
  THEN [heap |-> setattr(h, id, k, answer),
        conf |-> DictSet(conf, <<k>>, answer), asked |-> TRUE]
  ELSE [heap |-> h, conf |-> conf, asked |-> FALSE]

\* the values promt_for_param_value may return
PromptValues == {IntV(1), IntV(2)}

\* the answers that make a difference: one when no prompt is issued
ScalarAnswers(h, conf, id, k, inter) ==
  IF <<k>> \notin DOMAIN conf /\ ~hasattr(h, id, k) /\ inter
  THEN PromptValues ELSE {IntV(1)}

\* lines 189-205: one iteration of the loop over the non-component annotations
ResolveScalar ==
  /\ status = "hydrating"
  /\ Top.phase = "scalars"
  /\ LET f == Top
         id == f.self
         cls == heap[id].cls
         k == non_component_annotations(cls)[f.i][1]
     IN  \E answer \in ScalarAnswers(heap, f.conf, id, k, interactive) :
           LET r == ResolveScalarValue(heap, f.conf, id, k, interactive, answer)
           IN  /\ heap' = r.heap
               /\ stack' = SetTop(Step(cls, [f EXCEPT !.conf = r.conf]))
               /\ callerConf' = SyncCaller(r.conf)
               /\ prompted' = IF r.asked THEN Append(prompted, f.name \o <<k>>)
                              ELSE prompted
               /\ trace' = Append(trace, Event("scalar", f.name, id, k))
  /\ UNCHANGED <<status, err, interactive, root, call>>

\* the classes prompt_for_component may return for the declared type v
PromptChoices(v) == get_concrete_subclasses(v)

\* component resolution that asks the user whenever it runs interactively,
\* also when a single concrete subclass exists
ResolveComponentValue_prompt_first(h, conf, id, name, k, v, inter, choice) ==
  LET ok(h1, conf1, asked) ==
        [heap |-> h1, conf |-> conf1, kind |-> "", line |-> 0, asked |-> asked]
      raise(kind, line) ==
        [heap |-> h, conf |-> conf, kind |-> kind, line |-> line, asked |-> FALSE]
      new == Len(h) + 1
      h2 == setattr(Append(h, NewObject(choice)), id, k, InstV(new))
  IN  IF <<k>> \in DOMAIN conf
      THEN IF <<"k">> \notin DOMAIN conf THEN raise("KeyError", 211)
           ELSE IF conf[<<"k">>].t # "type" THEN raise("TypeError", 213)
           ELSE IF ~issubclass(conf[<<"k">>].c, v) THEN raise("TypeMismatch", 214)
           ELSE ok(setattr(h, id, k, conf[<<"k">>]), conf, FALSE)
      ELSE IF hasattr(h, id, k)
      THEN ok(h, DictSet(conf, <<k>>, getattr(h, id, k)), FALSE)
      ELSE IF inter /\ Cardinality(get_concrete_subclasses(v)) >= 1
      THEN ok(h2, DictSet(conf, <<k>>, InstV(new)), TRUE)
      ELSE IF Cardinality(get_concrete_subclasses(v)) = 1
      THEN ok(h2, DictSet(conf, <<k>>, InstV(new)), FALSE)
      ELSE ok(h, conf, FALSE)

\* component resolution that assigns the instance of the only concrete
\* subclass without writing it into conf
ResolveComponentValue_auto_not_shared(h, conf, id, name, k, v, inter, choice) ==
  LET ok(h1, conf1, asked) ==
        [heap |-> h1, conf |-> conf1, kind |-> "", line |-> 0, asked |-> asked]
      raise(kind, line) ==
        [heap |-> h, conf |-> conf, kind |-> kind, line |-> line, asked |-> FALSE]
      new == Len(h) + 1
      h2 == setattr(Append(h, NewObject(choice)), id, k, InstV(new))
  IN  IF <<k>> \in DOMAIN conf
      THEN IF <<"k">> \notin DOMAIN conf THEN raise("KeyError", 211)
           ELSE IF conf[<<"k">>].t # "type" THEN raise("TypeError", 213)
           ELSE IF ~issubclass(conf[<<"k">>].c, v) THEN raise("TypeMismatch", 214)
           ELSE ok(setattr(h, id, k, conf[<<"k">>]), conf, FALSE)
      ELSE IF hasattr(h, id, k)
      THEN ok(h, DictSet(conf, <<k>>, getattr(h, id, k)), FALSE)
      ELSE IF Cardinality(get_concrete_subclasses(v)) = 1
      THEN ok(h2, conf, FALSE)
      ELSE IF inter /\ Cardinality(get_concrete_subclasses(v)) > 1
      THEN ok(h2, DictSet(conf, <<k>>, InstV(new)), TRUE)
      ELSE ok(h, conf, FALSE)

\* lines 208-248: how one iteration of the loop over the component
\* annotations resolves parameter k of declared type v on instance id.
\* `choice` is the class the prompt returns, used by the interactive branch
\* only. The result is the heap and conf after the branch taken, the error it
\* raised (kind "" when none) and whether it prompted.
ResolveComponentValue(h, conf, id, name, k, v, inter, choice) ==
  LET ok(h1, conf1, asked) ==
        [heap |-> h1, conf |-> conf1, kind |-> "", line |-> 0, asked |-> asked]
      raise(kind, line) ==
        [heap |-> h, conf |-> conf, kind |-> kind, line |-> line, asked |-> FALSE]
      new == Len(h) + 1
      h2 == setattr(Append(h, NewObject(choice)), id, k, InstV(new))
  IN  IF <<k>> \in DOMAIN conf
      THEN IF <<"k">> \notin DOMAIN conf THEN raise("KeyError", 211)
           ELSE IF conf[<<"k">>].t # "type" THEN raise("TypeError", 213)
           ELSE IF ~issubclass(conf[<<"k">>].c, v) THEN raise("TypeMismatch", 214)
           ELSE ok(setattr(h, id, k, conf[<<"k">>]), conf, FALSE)
      ELSE IF hasattr(h, id, k)
      THEN ok(h, DictSet(conf, <<k>>, getattr(h, id, k)), FALSE)
      ELSE IF Cardinality(get_concrete_subclasses(v)) = 1
      THEN ok(h2, DictSet(conf, <<k>>, InstV(new)), FALSE)
      ELSE IF inter /\ Cardinality(get_concrete_subclasses(v)) > 1
      THEN ok(h2, DictSet(conf, <<k>>, InstV(new)), TRUE)
      ELSE ok(h, conf, FALSE)

\* the class the unique-subclass branch instantiates, or the classes the
\* prompt may return
InstanceChoices(v, inter) ==
  IF Cardinality(get_concrete_subclasses(v)) = 1 THEN get_concrete_subclasses(v)
  ELSE IF inter /\ Cardinality(get_concrete_subclasses(v)) > 1 THEN PromptChoices(v)
  ELSE {"Component"}

\* lines 208-263: one iteration of the loop over the component annotations:
\* resolve the parameter, then call hydrate on its value with the nested conf
ResolveComponent ==
  /\ status = "hydrating"
  /\ Top.phase = "components"
  /\ LET f == Top
         id == f.self
         cls == heap[id].cls
         k == component_annotations(cls)[f.i][1]
         v == component_annotations(cls)[f.i][2]
     IN  \E choice \in InstanceChoices(v, interactive) :
           LET r == ResolveComponentValue(heap, f.conf, id, f.name, k, v,
                                          interactive, choice)
               f1 == [f EXCEPT !.conf = r.conf]
               val == getattr(r.heap, id, k)
               name == f.name \o <<k>>
               resolved == Append(trace, Event("component", f.name, id, k))
           IN  /\ callerConf' = SyncCaller(r.conf)
               /\ prompted' = IF r.asked THEN Append(prompted, name) ELSE prompted
               /\ IF r.kind # ""
                  THEN /\ Raise(r.kind, f.name, k, r.line)
                       /\ UNCHANGED <<heap, stack, trace>>
                  ELSE IF ~hasattr(r.heap, id, k)
                  THEN /\ Raise("AttributeError", f.name, k, 258)
                       /\ heap' = r.heap
                       /\ stack' = SetTop(f1)
                       /\ trace' = resolved
                  ELSE IF val.t = "type"
                  THEN /\ Raise("TypeError", f.name, k, 258)
                       /\ heap' = r.heap
                       /\ stack' = SetTop(f1)
                       /\ trace' = resolved
                  ELSE IF val.t # "inst"
                  THEN /\ Raise("AttributeError", f.name, k, 258)
                       /\ heap' = r.heap
                       /\ stack' = SetTop(f1)
                       /\ trace' = resolved
                  ELSE /\ heap' = Enter(r.heap, val.v, id, name)
                       /\ stack' = Append(SetTop(f1),
                                          Frame(r.heap[val.v].cls, val.v, name,
                                                nested_conf(r.conf, k)))
                       /\ trace' = Append(resolved,
                                          Event("enter", name, val.v, ""))
                       /\ UNCHANGED <<status, err>>
  /\ UNCHANGED <<interactive, root, call>>

(* ---------------------------- validation ------------------------------- *)
\* validation that looks for missing parameters only
RECURSIVE validate_configuration_missing_only(_, _, _)
validate_configuration_missing_only(h, id, i) ==
  LET annots == component_annotations_all(h[id].cls) IN
  IF i > Len(annots) THEN NoErr
  ELSE IF ~hasattr(h, id, annots[i][1])
  THEN [kind |-> "MissingConfiguration", name |-> h[id].name,
        param |-> annots[i][1], line |-> 282, expected |-> annots[i][2],
        actual |-> ""]
  ELSE validate_configuration_missing_only(h, id, i + 1)

\* validation that checks the types of the values present and lets a missing
\* parameter pass
RECURSIVE validate_configuration_types_only(_, _, _)
validate_configuration_types_only(h, id, i) ==
  LET annots == component_annotations_all(h[id].cls) IN
  IF i > Len(annots) THEN NoErr
  ELSE IF hasattr(h, id, annots[i][1])
          /\ ~isinstance(h, getattr(h, id, annots[i][1]), annots[i][2])
  THEN [kind |-> "TypeMismatch", name |-> <<>>,
        param |-> annots[i][1], line |-> 288, expected |-> annots[i][2],
        actual |-> type(h, getattr(h, id, annots[i][1]))]
  ELSE validate_configuration_types_only(h, id, i + 1)

\* validation whose missing-parameter error names the bare parameter, as its
\* type error does
RECURSIVE validate_configuration_unqualified(_, _, _)
validate_configuration_unqualified(h, id, i) ==
  LET annots == component_annotations_all(h[id].cls) IN
  IF i > Len(annots) THEN NoErr
  ELSE IF ~hasattr(h, id, annots[i][1])
  THEN [kind |-> "MissingConfiguration", name |-> <<>>,
        param |-> annots[i][1], line |-> 282, expected |-> annots[i][2],
        actual |-> ""]
  ELSE IF ~isinstance(h, getattr(h, id, annots[i][1]), annots[i][2])
  THEN [kind |-> "TypeMismatch", name |-> <<>>,
        param |-> annots[i][1], line |-> 288, expected |-> annots[i][2],
        actual |-> type(h, getattr(h, id, annots[i][1]))]
  ELSE validate_configuration_unqualified(h, id, i + 1)

\* lines 280-290: the first error the loop over the annotations raises, from
\* annotation number i on (kind "" when there is none)
RECURSIVE validate_configuration(_, _, _)
validate_configuration(h, id, i) ==
  LET annots == component_annotations_all(h[id].cls) IN
  IF i > Len(annots) THEN NoErr
  ELSE IF ~hasattr(h, id, annots[i][1])
  THEN [kind |-> "MissingConfiguration", name |-> h[id].name,
        param |-> annots[i][1], line |-> 282, expected |-> annots[i][2],
        actual |-> ""]
  ELSE IF ~isinstance(h, getattr(h, id, annots[i][1]), annots[i][2])
  THEN [kind |-> "TypeMismatch", name |-> <<>>,
        param |-> annots[i][1], line |-> 288, expected |-> annots[i][2],
        actual |-> type(h, getattr(h, id, annots[i][1]))]
  ELSE validate_configuration(h, id, i + 1)

\* a callee working on the caller's own dict: what the callee wrote under
\* non-scoped keys shows in the caller's conf after the call
Return_shared_conf(cls, caller, callee) ==
  Step(cls, [caller EXCEPT !.conf = Merge(@, non_scoped_conf(callee.conf))])

\* a callee that was handed the caller's dict updated in place: all it holds
\* at the end shows in the caller's conf
Return_conf_updated_in_place(cls, caller, callee) ==
  Step(cls, [caller EXCEPT !.conf = Merge(@, callee.conf)])

\* lines 253-263: the frame of the calling hydrate after the call returned.
\* The callee got a dict of its own (line 257), so the caller's conf is as it
\* was and its loop moves on to the next component annotation.
Return(cls, caller, callee) == Step(cls, caller)

\* line 266, and the return of hydrate to its caller: the loop of the calling
\* hydrate moves on to its next component annotation
Validate ==
  /\ status = "hydrating"
  /\ Top.phase = "validate"
  /\ LET e == validate_configuration(heap, Top.self, 1)
         n == Len(stack)
         done == Append(trace, Event("validated", Top.name, Top.self, ""))
     IN  IF e.kind # ""
         THEN /\ status' = "failed"
              /\ err' = e
              /\ UNCHANGED <<stack, trace>>
         ELSE IF n = 1
         THEN /\ status' = "done"
              /\ stack' = <<>>
              /\ trace' = done
              /\ UNCHANGED err
         ELSE /\ stack' = [j \in 1..(n - 1) |->
                             IF j = n - 1
                             THEN Return(heap[stack[j].self].cls, stack[j],
                                         stack[n])
                             ELSE stack[j]]
              /\ trace' = done
              /\ UNCHANGED <<status, err>>
  /\ UNCHANGED <<heap, interactive, prompted, root, callerConf, call>>

Next == Construct \/ HydrateCall \/ ResolveScalar \/ ResolveComponent \/ Validate

Spec == Init /\ [][Next]_vars

\* the steps of a hydrate call that has been made
Running == ResolveScalar \/ ResolveComponent \/ Validate

TypeOK ==
  /\ status \in {"building", "hydrating", "done", "failed"}
  /\ interactive \in BOOLEAN
  /\ root \in 0..Len(heap)
  /\ \A i \in 1..Len(stack) : stack[i].self \in 1..Len(heap)

(* ------------------------- auxiliary notions --------------------------- *)
\* the instances held by the sub-component parameters of instance id
Children(h, id) ==
  {getattr(h, id, k).v :
     k \in {n \in ComponentNames(h[id].cls) :
              hasattr(h, id, n) /\ getattr(h, id, n).t = "inst"}}

RECURSIVE ReachFrom(_, _, _)
ReachFrom(h, ids, n) ==
  IF n = 0 THEN ids
  ELSE ReachFrom(h, ids \cup UNION {Children(h, id) : id \in ids}, n - 1)

\* the tree below instance id
Tree(h, id) == ReachFrom(h, {id}, Len(h))

\* the frames whose loop over the non-component annotations has finished
ScalarsDone == {j \in 1..Len(stack) : stack[j].phase # "scalars"}

Prefixes(p) == {SubSeq(p, 1, n) : n \in 0..Len(p)}

\* the scope paths of the keys of conf for leaf x that lie on path p
Scopes(conf, p, x) == {q \in Prefixes(p) : q \o <<x>> \in DOMAIN conf}

Longest(Q) == CHOOSE q \in Q : \A r \in Q : Len(r) <= Len(q)

\* the path of frame j below frame i
PathFrom(i, j) == SubSeq(stack[j].name, Len(stack[i].name) + 1, Len(stack[j].name))

(* ------------------------------ claims --------------------------------- *)
\* C1: whenever the top-level hydrate returns without error, every declared
\* parameter (scalar and sub-component) of every node of the tree below the
\* root has an assigned value.
C1_AllParametersAssigned ==
  status = "done" =>
    \A id \in Tree(heap, root) :
      \A k \in AnnotationNames(heap[id].cls) : hasattr(heap, id, k)

\* a three-level tree has been hydrated without error, non-interactively
C1_Witness ==
  /\ status = "done"
  /\ ~interactive
  /\ \E id \in Tree(heap, root) : heap[id].name = <<"S", "b", "a">>

\* C2: for a node at path p and a scalar x it declares, when the mapping passed
\* to the top-level hydrate holds keys q.x for scope paths q that are prefixes
\* of p, the node's value for x once its scalars are resolved is the value of
\* the key with the longest such q.
C2_LongestScopeWins ==
  \A j \in ScalarsDone :
    \A x \in ScalarNames(heap[stack[j].self].cls) :
      LET Q == Scopes(stack[1].conf0, PathFrom(1, j), x) IN
      Q # {} =>
        /\ hasattr(heap, stack[j].self, x)
        /\ getattr(heap, stack[j].self, x) = stack[1].conf0[Longest(Q) \o <<x>>]

\* node root.b.a got x from the key b.a.x although the bare key x holds
\* another value
C2_Witness ==
  \E j \in ScalarsDone :
    /\ PathFrom(1, j) = <<"b", "a">>
    /\ {<<"x">>, <<"b", "a", "x">>} \subseteq DOMAIN stack[1].conf0
    /\ stack[1].conf0[<<"x">>] # stack[1].conf0[<<"b", "a", "x">>]
    /\ getattr(heap, stack[j].self, "x") = stack[1].conf0[<<"b", "a", "x">>]
    /\ getattr(heap, stack[1].self, "x") = stack[1].conf0[<<"x">>]

\* the ancestors of frame j whose scope holds a key for leaf x in the mapping
\* passed to the top-level hydrate
AncestorScopes(j, x) ==
  {m \in 1..(j - 1) : PathFrom(1, m) \o <<x>> \in DOMAIN stack[1].conf0}

Nearest(M) == CHOOSE m \in M : \A n \in M : n <= m

\* C3: when a node declares scalar x and the mapping holds no key scoped
\* exactly to that node for x, the node receives the value of the key of the
\* nearest ancestor scope that has one, which is also the value that ancestor
\* got when it declares x; the nodes in between need not declare x.
C3_InheritsNearestAncestorScope ==
  \A j \in ScalarsDone :
    \A x \in ScalarNames(heap[stack[j].self].cls) :
      LET M == AncestorScopes(j, x) IN
      (PathFrom(1, j) \o <<x>> \notin DOMAIN stack[1].conf0 /\ M # {}) =>
        LET m == Nearest(M)
            val == stack[1].conf0[PathFrom(1, m) \o <<x>>]
        IN  /\ hasattr(heap, stack[j].self, x)
            /\ getattr(heap, stack[j].self, x) = val
            /\ x \in ScalarNames(heap[stack[m].self].cls) =>
                 getattr(heap, stack[m].self, x) = val

\* root.b.a got x from the key b.x, not from the bare key x, through a node b
\* of class Bn that does not declare x
C3_Witness ==
  \E j \in ScalarsDone :
    /\ PathFrom(1, j) = <<"b", "a">>
    /\ heap[stack[2].self].cls = "Bn"
    /\ "x" \notin ScalarNames("Bn")
    /\ DOMAIN stack[1].conf0 = {<<"x">>, <<"b", "x">>}
    /\ stack[1].conf0[<<"x">>] # stack[1].conf0[<<"b", "x">>]
    /\ getattr(heap, stack[j].self, "x") = stack[1].conf0[<<"b", "x">>]

\* C4: for every scalar k of a node, when the mapping passed to that node's
\* hydrate holds the unscoped key k, the node's value for k after its scalars
\* are resolved is that entry, whatever the instance or its class held before,
\* and the entry itself is unchanged.
C4_ConfigOverridesDefaults ==
  \A j \in ScalarsDone :
    \A k \in ScalarNames(heap[stack[j].self].cls) :
      <<k>> \in DOMAIN stack[j].conf0 =>
        /\ hasattr(heap, stack[j].self, k)
        /\ getattr(heap, stack[j].self, k) = stack[j].conf0[<<k>>]
        /\ stack[j].conf[<<k>>] = stack[j].conf0[<<k>>]

\* a configured z replaced a different class-level default
C4_Witness ==
  \E j \in ScalarsDone :
    /\ <<"z">> \in DOMAIN stack[j].conf0
    /\ HasClassAttr(heap[stack[j].self].cls, "z")
    /\ ClassAttr(getmro(heap[stack[j].self].cls), "z") # stack[j].conf0[<<"z">>]
    /\ getattr(heap, stack[j].self, "z") = stack[j].conf0[<<"z">>]

Range(seq) == {seq[n] : n \in 1..Len(seq)}

\* frame i holds a value for k that it was neither passed nor prompted for:
\* one set by the constructor or a class-level default
OwnDefault(i, k) ==
  /\ <<k>> \notin DOMAIN stack[i].conf0
  /\ hasattr(heap, stack[i].self, k)
  /\ stack[i].name \o <<k>> \notin Range(prompted)

\* the mapping passed to frame i holds no key for leaf k scoped to a node on
\* the path from below frame i down to frame j
NoMoreSpecificKey(i, j, k) ==
  \A m \in (i + 1)..j : PathFrom(i, m) \o <<k>> \notin DOMAIN stack[i].conf0

\* C5: when a node has a value for scalar k from construction or a class-level
\* default and its mapping has no unscoped key k, hydration writes that value
\* into the mapping under k, and every descendant that declares k and has no
\* more specific scoped key receives that value, its own class-level default
\* notwithstanding.
C5_DefaultPropagates ==
  \A i \in ScalarsDone :
    \A k \in ScalarNames(heap[stack[i].self].cls) :
      OwnDefault(i, k) =>
        /\ <<k>> \in DOMAIN stack[i].conf
        /\ stack[i].conf[<<k>>] = getattr(heap, stack[i].self, k)
        /\ \A j \in ScalarsDone :
             (/\ j > i
              /\ k \in ScalarNames(heap[stack[j].self].cls)
              /\ NoMoreSpecificKey(i, j, k)) =>
               /\ hasattr(heap, stack[j].self, k)
               /\ getattr(heap, stack[j].self, k) = getattr(heap, stack[i].self, k)

\* the class-level default z = 3 of root C reached its child b, whose class
\* has the default z = 9
C5_Witness ==
  /\ 2 \in ScalarsDone
  /\ heap[stack[1].self].cls = "C"
  /\ OwnDefault(1, "z")
  /\ HasClassAttr(heap[stack[2].self].cls, "z")
  /\ ClassAttr(getmro(heap[stack[2].self].cls), "z") = IntV(9)
  /\ getattr(heap, stack[2].self, "z") = IntV(3)
  /\ stack[1].conf[<<"z">>] = IntV(3)

\* the sub-components of frame i hydrated before the one it is at now
ElderSiblings(i) ==
  {getattr(heap, stack[i].self, component_annotations(heap[stack[i].self].cls)[n][1]).v :
     n \in 1..(stack[i].i - 1)}

LastOf(seq) == seq[Len(seq)]

\* sub-component s of frame i, hydrated before the child frame i + 1, holds a
\* value for k that neither the mapping of frame i nor a scoped key gave it,
\* and no key is scoped to the child either
ResolvedBySibling(i, s, k) ==
  /\ k \in ScalarNames(heap[s].cls)
  /\ hasattr(heap, s, k)
  /\ <<k>> \notin DOMAIN stack[i].conf
  /\ \A key \in DOMAIN stack[i].conf : LastOf(key) = k => Len(key) = 1

\* C6 as stated: a value that sub-component c1 resolved from its own default or
\* a prompt is received by a sibling c2 hydrated afterwards that declares k and
\* has no more specific key.
C6_SiblingReceivesResolvedValue ==
  \A j \in ScalarsDone :
    j >= 2 =>
      \A s \in ElderSiblings(j - 1) :
        \A k \in ScalarNames(heap[stack[j].self].cls) :
          ResolvedBySibling(j - 1, s, k) =>
            /\ hasattr(heap, stack[j].self, k)
            /\ getattr(heap, stack[j].self, k) = getattr(heap, s, k)

\* C6 amended: what a node resolves is written into the mapping that node was
\* given and nowhere else. The mapping of its parent gains unscoped keys for
\* the parent's own parameters only, and a sub-component hydrated later starts
\* from the parent's mapping alone: for a scalar k it declares it is passed the
\* parent's entry scoped to it, else the parent's unscoped entry, else nothing,
\* whatever an elder sibling resolved.
C6_SiblingsStartFromParentConf ==
  \A j \in 2..Len(stack) :
    LET i == j - 1
        kj == LastOf(stack[j].name)
    IN  /\ \A key \in DOMAIN stack[i].conf :
             \/ key \in DOMAIN stack[i].conf0
             \/ /\ Len(key) = 1
                /\ key[1] \in AnnotationNames(heap[stack[i].self].cls)
        /\ \A k \in ScalarNames(heap[stack[j].self].cls) :
             IF <<kj, k>> \in DOMAIN stack[i].conf
             THEN /\ <<k>> \in DOMAIN stack[j].conf0
                  /\ stack[j].conf0[<<k>>] = stack[i].conf[<<kj, k>>]
             ELSE IF <<k>> \in DOMAIN stack[i].conf
             THEN /\ <<k>> \in DOMAIN stack[j].conf0
                  /\ stack[j].conf0[<<k>>] = stack[i].conf[<<k>>]
             ELSE <<k>> \notin DOMAIN stack[j].conf0

\* S.b resolved z from the class-level default of B, and S.r, hydrated after
\* it without a key for z, was passed no z and has none
C6_Witness ==
  /\ Len(stack) = 2
  /\ 2 \in ScalarsDone
  /\ stack[2].name = <<"S", "r">>
  /\ \E s \in ElderSiblings(1) :
       /\ ResolvedBySibling(1, s, "z")
       /\ getattr(heap, s, "z") = IntV(9)
  /\ <<"z">> \notin DOMAIN stack[2].conf0
  /\ ~hasattr(heap, stack[2].self, "z")

\* the component annotation the top frame is at
CurrentName == component_annotations(heap[Top.self].cls)[Top.i][1]
CurrentType == component_annotations(heap[Top.self].cls)[Top.i][2]

\* hydrate raised while the top frame was resolving a sub-component parameter
FailedInComponentLoop ==
  status = "failed" /\ Len(stack) >= 1 /\ Top.phase = "components"

\* C7 as stated: when the mapping contains the unscoped key k of a
\* sub-component parameter of declared type T, the value stored under k decides:
\* a type that is a subtype of T is accepted and hydration goes on, anything
\* else fails with a TypeMismatch error. So a failure while resolving such a k
\* is a TypeMismatch for a value that is no subtype of T.
C7_ConfiguredSubcomponentDecides ==
  (FailedInComponentLoop /\ <<CurrentName>> \in DOMAIN Top.conf0) =>
    /\ ~(/\ Top.conf0[<<CurrentName>>].t = "type"
         /\ issubclass(Top.conf0[<<CurrentName>>].c, CurrentType))
    /\ err.kind = "TypeMismatch"

\* C8 as stated: non-interactively, a sub-component parameter k with no
\* unscoped entry, no pre-set instance and a number of concrete subtypes other
\* than one is left unassigned and not hydrated, and the call fails with the
\* MissingConfiguration error of validation naming a parameter of that node.
C8_AmbiguousFailsInValidation ==
  (/\ status = "failed"
   /\ ~interactive
   /\ Len(stack) >= 1
   /\ \E k \in ComponentNames(heap[Top.self].cls) :
        /\ <<k>> \notin DOMAIN Top.conf
        /\ ~hasattr(heap, Top.self, k)
        /\ Cardinality(get_concrete_subclasses(
             CHOOSE ty \in ClassNames :
               <<k, ty>> \in Range(component_annotations(heap[Top.self].cls)))) # 1) =>
    /\ err.kind = "MissingConfiguration"
    /\ err.line = 282
    /\ err.name = Top.name
    /\ ~hasattr(heap, Top.self, err.param)

\* the top frame is about to resolve a sub-component parameter that has no
\* unscoped entry and no pre-set value, of a type with one concrete subclass
C9_Pre ==
  /\ status = "hydrating"
  /\ Len(stack) >= 1
  /\ Top.phase = "components"
  /\ <<CurrentName>> \notin DOMAIN Top.conf
  /\ ~hasattr(heap, Top.self, CurrentName)
  /\ Cardinality(get_concrete_subclasses(CurrentType)) = 1

\* a new instance of that subclass, built without arguments, is assigned,
\* written into conf and being hydrated, and nobody was asked
C9_Post ==
  LET new == Len(heap) + 1
      n == Len(stack)
  IN  /\ Len(heap') = new
      /\ heap'[new].cls \in get_concrete_subclasses(CurrentType)
      /\ heap'[new].attrs = NoAttrs
      /\ getattr(heap', Top.self, CurrentName) = InstV(new)
      /\ <<CurrentName>> \in DOMAIN stack'[n].conf
      /\ stack'[n].conf[<<CurrentName>>] = InstV(new)
      /\ Len(stack') = n + 1
      /\ stack'[n + 1].self = new
      /\ heap'[new].parent = Top.self
      /\ prompted' = prompted
      /\ status' = "hydrating"

\* C9: a sub-component parameter with no unscoped entry and no pre-set
\* instance whose declared type has exactly one concrete subtype gets a new
\* instance of that subtype, built with no arguments, assigned, written into
\* conf[k] and hydrated, without a prompt, interactive or not.
C9_UniqueSubtypeAutoResolved == [][C9_Pre => C9_Post]_vars

\* in interactive mode S.b.a of the only subclass A of A is being hydrated and
\* no prompt has been issued
C9_Witness ==
  /\ interactive
  /\ Len(stack) = 3
  /\ stack[3].name = <<"S", "b", "a">>
  /\ stack[3].self > root
  /\ heap[stack[3].self].cls = "A"
  /\ get_concrete_subclasses("A") = {"A"}
  /\ getattr(heap, stack[2].self, "a") = InstV(stack[3].self)
  /\ prompted = <<>>

\* the scalar parameters without a value on the instances hydrate has entered
MissingScalars ==
  {p \in UNION {{<<id, k>> : k \in ScalarNames(heap[id].cls)} :
                  id \in {n \in 1..Len(heap) : heap[n].name # NoName}} :
     ~hasattr(heap, p[1], p[2])}

\* the top-level call returned, or validation raised
EndedByValidation == status = "done" \/ (status = "failed" /\ err.line \in {282, 288})

\* C10 as stated, for the calls that validation ends: non-interactively, when
\* a node declares a scalar that got no value, the top-level call fails with a
\* MissingConfiguration error naming such a parameter by its qualified name.
C10_MissingScalarReported ==
  (~interactive /\ EndedByValidation /\ MissingScalars # {}) =>
    /\ status = "failed"
    /\ err.kind = "MissingConfiguration"
    /\ \E p \in MissingScalars : err.name = heap[p[1]].name /\ err.param = p[2]

\* C10 amended: non-interactively, a top-level call that left a scalar of a
\* node it reached without a value never returns normally; it fails with the
\* first error raised, and when that is the MissingConfiguration error it
\* carries the qualified name of the node being validated and a parameter
\* that node has no value for.
C10_MissingScalarNeverReturns ==
  ~interactive =>
    /\ status = "done" => MissingScalars = {}
    /\ (status = "failed" /\ err.kind = "MissingConfiguration") =>
         /\ Top.phase = "validate"
         /\ err.name = Top.name
         /\ heap[Top.self].name = err.name
         /\ <<Top.self, err.param>> \in MissingScalars

\* S.b.a was left without x and its validation raised, naming S.b.a.x
C10_Witness ==
  /\ ~interactive
  /\ status = "failed"
  /\ err.kind = "MissingConfiguration"
  /\ err.name = <<"S", "b", "a">>
  /\ err.param = "x"
  /\ <<Top.self, "x">> \in MissingScalars

\* the steps of the trace at which hydrate was entered on instance id
Entries(id) == {n \in 1..Len(trace) : trace[n].op = "enter" /\ trace[n].id = id}

\* C11 as stated: during one top-level hydrate call every instance is hydrated
\* at most once, so its parent back-link and qualified name are set once, also
\* when the instance is a class-level default or a construction-time value
\* that several sub-component parameters hold.
C11_HydratedOnce ==
  \A id \in 1..Len(heap) : Cardinality(Entries(id)) <= 1

\* the declared type of parameter k of class cls
DeclaredType(cls, k) ==
  LET annots == component_annotations_all(cls)
  IN  annots[CHOOSE n \in 1..Len(annots) : annots[n][1] = k][2]

\* the parameters of instance id that have no value, and those whose value is
\* no instance of the declared type
Missing(h, id) == {k \in AnnotationNames(h[id].cls) : ~hasattr(h, id, k)}

WrongTyped(h, id) ==
  {k \in AnnotationNames(h[id].cls) :
     hasattr(h, id, k) /\ ~isinstance(h, getattr(h, id, k), DeclaredType(h[id].cls, k))}

\* the steps of the trace made on instance id
StepsOn(id) == {n \in 1..Len(trace) : trace[n].id = id}

Last(N) == CHOOSE n \in N : \A m \in N : m <= n

\* instance id has been hydrated and validated, and not been entered since
Hydrated(id) == StepsOn(id) # {} /\ trace[Last(StepsOn(id))].op = "validated"

\* validation of the node of the top frame raised
ValidationFailed ==
  status = "failed" /\ Len(stack) >= 1 /\ Top.phase = "validate"

\* C12 as stated: after a successful hydrate every parameter of every node
\* holds an instance of its declared type, and a node holding a value of the
\* wrong runtime type makes its validation fail with a TypeMismatch error
\* naming the parameter and the expected and actual types.
C12_WrongTypeReported ==
  /\ status = "done" => \A id \in Tree(heap, root) : WrongTyped(heap, id) = {}
  /\ (ValidationFailed /\ WrongTyped(heap, Top.self) # {}) =>
       /\ err.kind = "TypeMismatch"
       /\ err.param \in WrongTyped(heap, Top.self)
       /\ err.expected = DeclaredType(heap[Top.self].cls, err.param)
       /\ err.actual = type(heap, getattr(heap, Top.self, err.param))

\* the position in declaration order of the first parameter of instance id
\* that is missing or wrongly typed
FirstOffence(h, id) ==
  LET annots == component_annotations_all(h[id].cls)
      bad == {n \in 1..Len(annots) :
                annots[n][1] \in Missing(h, id) \cup WrongTyped(h, id)}
  IN  CHOOSE n \in bad : \A m \in bad : n <= m

\* C12 amended: every node that has been hydrated, and so every node of the
\* tree after a successful hydrate, holds for each declared parameter an
\* instance of the declared type. Validation of a node reports its first
\* offending parameter in declaration order: for a value of the wrong runtime
\* type that is a TypeMismatch error naming the bare parameter and the
\* expected and actual types, unless a parameter declared earlier has no
\* value, which gives MissingConfiguration for that one.
C12_FirstOffenceReported ==
  /\ status = "done" => \A id \in Tree(heap, root) : WrongTyped(heap, id) = {}
  /\ \A id \in 1..Len(heap) :
       Hydrated(id) => WrongTyped(heap, id) = {} /\ Missing(heap, id) = {}
  /\ ValidationFailed =>
       LET annots == component_annotations_all(heap[Top.self].cls)
           k == annots[FirstOffence(heap, Top.self)][1]
       IN  /\ Missing(heap, Top.self) \cup WrongTyped(heap, Top.self) # {}
           /\ err.param = k
           /\ err.expected = annots[FirstOffence(heap, Top.self)][2]
           /\ IF k \in Missing(heap, Top.self)
              THEN err.kind = "MissingConfiguration" /\ err.line = 282
              ELSE /\ err.kind = "TypeMismatch"
                   /\ err.line = 288
                   /\ err.name = <<>>
                   /\ err.actual = type(heap, getattr(heap, Top.self, k))
                   /\ err.actual # err.expected

\* the str configured under z made the validation of S.b.a fail with a
\* TypeMismatch naming z, int and str
C12_Witness ==
  /\ ValidationFailed
  /\ Top.name = <<"S", "b", "a">>
  /\ getattr(heap, Top.self, "z") = StrV
  /\ Missing(heap, Top.self) = {}
  /\ err.kind = "TypeMismatch"
  /\ err.param = "z"
  /\ err.expected = "int"
  /\ err.actual = "str"

\* the names among kwargs that the class does not declare
Undeclared(cls, kwargs) ==
  {kwargs[i][1] : i \in 1..Len(kwargs)} \ AnnotationNames(cls)

\* the keyword arguments as a mapping from name to value
KwDict(kwargs) ==
  [n \in {kwargs[i][1] : i \in 1..Len(kwargs)} |->
     kwargs[CHOOSE i \in 1..Len(kwargs) : kwargs[i][1] = n][2]]

\* no instance has been entered by hydrate and none has been validated
NothingHydrated ==
  /\ stack = <<>>
  /\ trace = <<>>
  /\ \A id \in 1..Len(heap) : heap[id].name = NoName /\ heap[id].parent = 0

\* C13: a constructor call with a keyword that the class neither declares nor
\* inherits fails with InvalidArgument naming that keyword; a call with
\* declared names only returns an instance whose
\* attributes are exactly the keyword arguments. Until hydrate is called no
\* instance, new or passed as an argument, has been hydrated or validated.
C13_ConstructionChecksNames ==
  /\ status = "building" => NothingHydrated /\ err = NoErr
  /\ call # NoCall =>
       IF Undeclared(call.cls, call.kwargs) # {}
       THEN /\ status = "failed"
            /\ err.kind = "InvalidArgument"
            /\ err.param \in Undeclared(call.cls, call.kwargs)
            /\ NothingHydrated
       ELSE status = "building" =>
              /\ heap[Len(heap)].cls = call.cls
              /\ heap[Len(heap)].attrs = KwDict(call.kwargs)

\* B(bad=2) was refused although B inherits parameters from Bn
C13_Witness ==
  /\ status = "failed"
  /\ err.kind = "InvalidArgument"
  /\ err.param = "bad"
  /\ call.cls = "B"
  /\ AnnotationNames("B") = {"a", "z", "x"}
  /\ ClassTable["B"].annots = << <<"x", "int">> >>

\* the scalar and the sub-component parameters of a class in the order of
\* their declaration
DeclaredScalars(cls) == SelectSeq(component_annotations_all(cls), IsScalarPair)
DeclaredComponents(cls) == SelectSeq(component_annotations_all(cls), IsComponentPair)

\* the steps of kind op made on the node called `node` before step n
StepsBefore(n, op, node) ==
  {m \in 1..(n - 1) : trace[m].op = op /\ trace[m].node = node}

\* the nodes entered and not yet validated before step n, and the innermost
OpenBefore(n) ==
  {trace[m].node : m \in {m \in 1..(n - 1) : trace[m].op = "enter"}}
    \ {trace[m].node : m \in {m \in 1..(n - 1) : trace[m].op = "validated"}}

Deepest(N) == CHOOSE p \in N : \A q \in N : Len(q) <= Len(p)

\* step n works on the innermost node that is open
OnInnermost(n) ==
  OpenBefore(n) # {} /\ trace[n].node = Deepest(OpenBefore(n))

\* sub-component k of the node of step n was hydrated and validated before it
ChildDoneBefore(n, k) ==
  /\ StepsBefore(n, "enter", trace[n].node \o <<k>>) # {}
  /\ StepsBefore(n, "validated", trace[n].node \o <<k>>) # {}

\* step n of the trace comes in the order of the three phases of hydrate
StepInOrder(n) ==
  LET e == trace[n]
      cls == heap[e.id].cls
      ns == Cardinality(StepsBefore(n, "scalar", e.node))
      nc == Cardinality(StepsBefore(n, "component", e.node))
  IN  IF e.op = "enter"
      THEN \/ n = 1
           \/ /\ trace[n - 1].op = "component"
              /\ e.node = trace[n - 1].node \o <<trace[n - 1].param>>
              /\ StepsBefore(n, "enter", e.node) = {}
      ELSE IF e.op = "scalar"
      THEN /\ OnInnermost(n)
           /\ nc = 0
           /\ ns < Len(DeclaredScalars(cls))
           /\ e.param = DeclaredScalars(cls)[ns + 1][1]
      ELSE IF e.op = "component"
      THEN /\ OnInnermost(n)
           /\ ns = Len(DeclaredScalars(cls))
           /\ nc < Len(DeclaredComponents(cls))
           /\ e.param = DeclaredComponents(cls)[nc + 1][1]
           /\ \A m \in 1..nc : ChildDoneBefore(n, DeclaredComponents(cls)[m][1])
      ELSE /\ OnInnermost(n)
           /\ ns = Len(DeclaredScalars(cls))
           /\ nc = Len(DeclaredComponents(cls))
           /\ \A m \in 1..nc : ChildDoneBefore(n, DeclaredComponents(cls)[m][1])

\* the steps the last action appended: every action appends at most two, so
\* a property of these steps in every reachable state is one of every step
LatestSteps == {n \in 1..Len(trace) : n >= Len(trace) - 1}

\* C14: at every node all scalar parameters are resolved, in declaration
\* order, before any sub-component parameter is resolved or hydrated; the
\* sub-components are resolved and hydrated one after the other in declaration
\* order, each one completely (down to its own validation) before the next;
\* and a node is validated only after each of its sub-components has been
\* hydrated and validated. A validation that raises comes as late.
C14_HydrationOrder ==
  /\ \A n \in LatestSteps : StepInOrder(n)
  /\ \A j \in 1..Len(stack) :
       stack[j].phase = "validate" =>
         \A k \in ComponentNames(heap[stack[j].self].cls) :
           /\ StepsBefore(Len(trace) + 1, "enter", stack[j].name \o <<k>>) # {}
           /\ StepsBefore(Len(trace) + 1, "validated", stack[j].name \o <<k>>) # {}

\* S was hydrated to the end: S.b.a was validated before S.b, S.b before S.r
\* was entered, and S.r before S
C14_Witness ==
  /\ status = "done"
  /\ \E a, b, c, d \in 1..Len(trace) :
       /\ a < b /\ b < c /\ c < d /\ d < Len(trace)
       /\ trace[a] = Event("validated", <<"S", "b", "a">>, trace[a].id, "")
       /\ trace[b] = Event("validated", <<"S", "b">>, trace[b].id, "")
       /\ trace[c] = Event("enter", <<"S", "r">>, trace[c].id, "")
       /\ trace[d] = Event("validated", <<"S", "r">>, trace[d].id, "")
       /\ trace[Len(trace)] = Event("validated", <<"S">>, root, "")

\* the node called `node` has been validated
ValidatedNode(node) == StepsBefore(Len(trace) + 1, "validated", node) # {}

\* an error has been raised exactly when the call has failed, and then the
\* node that was being hydrated and every ancestor of it, the root included,
\* have not been validated
C15_FailedState ==
  /\ err # NoErr <=> status = "failed"
  /\ status = "failed" =>
       \A j \in 1..Len(stack) : ~ValidatedNode(stack[j].name)

\* C15: once an error is raised the call has failed for good: no step follows,
\* so no parameter is resolved and no node is entered or validated any more,
\* the error recorded stays the one raised, and neither the failing node nor
\* any of its ancestors is ever validated.
C15_AbortOnError == []C15_FailedState /\ [][status # "failed"]_vars

\* S.r failed after its elder sibling S.b had been hydrated and validated,
\* and S was left unvalidated
C15_Witness ==
  /\ status = "failed"
  /\ Len(stack) = 2
  /\ Top.name = <<"S", "r">>
  /\ ValidatedNode(<<"S", "b">>)
  /\ ValidatedNode(<<"S", "b", "a">>)
  /\ ~ValidatedNode(<<"S">>)
  /\ err # NoErr

\* the top frame is about to resolve a scalar parameter
AtScalar == status = "hydrating" /\ Len(stack) >= 1 /\ Top.phase = "scalars"

\* the scalar parameter the top frame is at
CurrentScalar == DeclaredScalars(heap[Top.self].cls)[Top.i][1]

\* nothing gives the current scalar a value but the user
NeedsPrompt ==
  /\ interactive
  /\ <<CurrentScalar>> \notin DOMAIN Top.conf
  /\ ~hasattr(heap, Top.self, CurrentScalar)

\* a step that resolves a scalar prompts exactly when the mapping has no
\* unscoped key for it and the node has no value for it, in interactive mode;
\* the answer is assigned and written into the node's mapping under the key
C16_PromptStep ==
  AtScalar =>
    /\ prompted' # prompted <=> NeedsPrompt
    /\ NeedsPrompt =>
         /\ prompted' = Append(prompted, Top.name \o <<CurrentScalar>>)
         /\ hasattr(heap', Top.self, CurrentScalar)
         /\ getattr(heap', Top.self, CurrentScalar) \in PromptValues
         /\ stack'[Len(stack)].conf =
              DictSet(Top.conf, <<CurrentScalar>>,
                      getattr(heap', Top.self, CurrentScalar))

\* a descendant of a node that was prompted for k which declares k and has no
\* more specific key is not prompted for k and holds the prompted value
C16_AnswerInherited ==
  \A i \in 1..Len(stack) :
    \A k \in ScalarNames(heap[stack[i].self].cls) :
      stack[i].name \o <<k>> \in Range(prompted) =>
        \A j \in (i + 1)..Len(stack) :
          (k \in ScalarNames(heap[stack[j].self].cls) /\ NoMoreSpecificKey(i, j, k)) =>
            /\ stack[j].name \o <<k>> \notin Range(prompted)
            /\ j \in ScalarsDone =>
                 /\ hasattr(heap, stack[j].self, k)
                 /\ getattr(heap, stack[j].self, k) = getattr(heap, stack[i].self, k)

\* C16: in interactive mode a prompt for scalar k is issued at a node exactly
\* when its mapping has no unscoped key k and the node has no value for k; the
\* answer is assigned and written into conf[k], so that no descendant that
\* declares k without a more specific scoped key is prompted again and each
\* of them receives the answer.
C16_InteractiveScalar == [][C16_PromptStep]_vars /\ []C16_AnswerInherited

\* C was prompted for x; C.b.a, two levels below, holds the answer and was
\* not prompted
C16_Witness ==
  /\ interactive
  /\ Len(stack) = 3
  /\ 3 \in ScalarsDone
  /\ stack[3].name = <<"C", "b", "a">>
  /\ <<"C", "x">> \in Range(prompted)
  /\ <<"C", "b", "a", "x">> \notin Range(prompted)
  /\ getattr(heap, stack[1].self, "x") \in PromptValues
  /\ getattr(heap, stack[3].self, "x") = getattr(heap, stack[1].self, "x")

\* C17 as stated: after a hydrate call without a name argument the root is
\* named after its class, and every node reached through sub-component
\* parameter k of a node of the tree is named <name of that node>.k and has
\* that node as its parent.
C17_QualifiedNames ==
  status = "done" =>
    /\ heap[root].name = <<heap[root].cls>>
    /\ heap[root].parent = 0
    /\ \A id \in Tree(heap, root) :
         \A k \in ComponentNames(heap[id].cls) :
           LET c == getattr(heap, id, k).v
           IN  /\ heap[c].name = heap[id].name \o <<k>>
               /\ heap[c].parent = id

\* the names of the sub-component parameters of all classes
AllComponentNames == UNION {ComponentNames(cls) : cls \in ClassNames}

\* the sub-component parameters through which the active calls were made,
\* outermost first
ActivePath == IF stack = <<>> THEN <<>> ELSE PathFrom(1, Len(stack))

\* no parameter name occurs twice on the path of the active calls: a node
\* writes every sub-component it resolves into conf under the unscoped key,
\* the entry is handed down, and a descendant that declares the name again
\* takes the branch of line 210, which never leads to a call of hydrate
C18_PathBounded ==
  /\ \A m, n \in 1..Len(ActivePath) : ActivePath[m] = ActivePath[n] => m = n
  /\ Len(stack) <= Cardinality(AllComponentNames) + 1

RECURSIVE Max(_)
Max(N) == IF N = {} THEN 0 ELSE LET n == CHOOSE n \in N : TRUE
                                    m == Max(N \ {n})
                                IN  IF n > m THEN n ELSE m

RECURSIVE Power(_, _)
Power(b, e) == IF e = 0 THEN 1 ELSE b * Power(b, e - 1)

RECURSIVE Sum(_, _)
\* b^0 + ... + b^e
Sum(b, e) == IF e = 0 THEN 1 ELSE Power(b, e) + Sum(b, e - 1)

\* the nodes of a tree in which no parameter name occurs twice on a path, and
\* the steps hydrate makes on them: entering a node, one step per parameter,
\* its validation
NodeLimit ==
  Sum(Max({Len(DeclaredComponents(cls)) : cls \in ClassNames}),
      Cardinality(AllComponentNames))

StepLimit ==
  NodeLimit * (2 + Max({Len(component_annotations_all(cls)) : cls \in ClassNames}))

\* the innermost active call is at a parameter of one of its loops or at its
\* validation, so that ResolveScalar, ResolveComponent or Validate can step
CanStep ==
  /\ stack # <<>>
  /\ LET cls == heap[Top.self].cls
     IN  \/ Top.phase = "scalars" /\ Top.i \in 1..Len(DeclaredScalars(cls))
         \/ Top.phase = "components" /\ Top.i \in 1..Len(DeclaredComponents(cls))
         \/ Top.phase = "validate"

\* a call that is running can make a step, its nesting is bounded and so is
\* the number of steps it has made
C18_Bounded ==
  /\ C18_PathBounded
  /\ Len(trace) <= StepLimit
  /\ status = "hydrating" => CanStep

\* every step of a running call ends the call or adds to the steps made
C18_Progress ==
  status = "hydrating" =>
    status' \in {"done", "failed"} \/ Len(trace') > Len(trace)

\* C18: a top-level hydrate call ends, with the tree hydrated or with an
\* error: a running call can always make a step, every step ends it or adds
\* to its trace, and the trace is bounded because the nesting of the calls is
\* bounded by the number of sub-component parameter names of the registry,
\* also for Link, whose parameter has Link itself as its only concrete
\* subtype.
C18_HydrationTerminates == []C18_Bounded /\ [][C18_Progress]_vars

\* Link() was hydrated: next got an instance of Link, the only concrete
\* subclass of Node, and the hydration of that instance ended the call at the
\* second level
C18_Witness ==
  /\ status = "failed"
  /\ Len(stack) = 2
  /\ heap[stack[1].self].cls = "Link"
  /\ heap[stack[2].self].cls = "Link"
  /\ get_concrete_subclasses("Node") = {"Link"}
  /\ stack[2].self > root
  /\ <<"next">> \in DOMAIN stack[2].conf0

\* the mapping of every active call holds the entries it was passed,
\* unchanged, and besides them only unscoped keys that name parameters of the
\* node of the call, each with the value of that parameter on the node; the
\* mapping of the top-level call is the caller's
C19_OwnKeysAdded ==
  /\ stack # <<>> => callerConf = stack[1].conf
  /\ \A j \in 1..Len(stack) :
       /\ \A key \in DOMAIN stack[j].conf0 :
            key \in DOMAIN stack[j].conf /\ stack[j].conf[key] = stack[j].conf0[key]
       /\ \A key \in DOMAIN stack[j].conf \ DOMAIN stack[j].conf0 :
            /\ Len(key) = 1
            /\ key[1] \in AnnotationNames(heap[stack[j].self].cls)
            /\ hasattr(heap, stack[j].self, key[1])
            /\ stack[j].conf[key] = getattr(heap, stack[j].self, key[1])

\* no step changes the mapping of a call other than the innermost one, the
\* return of the innermost call included
C19_OuterMappingsKept ==
  \A j \in 1..(Len(stack) - 1) :
    j <= Len(stack') => stack'[j].conf = stack[j].conf

\* C19: a hydrate call never removes or changes an entry of the mapping it was
\* given; it only adds unscoped keys that name declared parameters of its own
\* node, and what is written while a descendant is hydrated goes to the
\* nested mapping built for that descendant and never shows in the mapping of
\* the parent.
C19_CallerMappingFrame == []C19_OwnKeysAdded /\ [][C19_OuterMappingsKept]_vars

\* S was given two entries, kept them and added b; S.b wrote its default z
\* into the mapping built for it, and the mapping of S holds no z
C19_Witness ==
  /\ Len(stack) = 2
  /\ stack[2].name = <<"S", "b">>
  /\ Cardinality(DOMAIN stack[1].conf0) = 2
  /\ DOMAIN stack[1].conf \ DOMAIN stack[1].conf0 = {<<"b">>}
  /\ <<"z">> \in DOMAIN stack[2].conf \ DOMAIN stack[2].conf0
  /\ <<"z">> \notin DOMAIN stack[1].conf
  /\ callerConf = stack[1].conf

====
